---- MODULE Spec2Model ----
(***************************************************************************)
(* Model of scripts/generate-icon.py: create_icon(size) paints a fixed     *)
(* sequence of shapes on a transparent canvas, main() renders six sizes    *)
(* and saves images[0] as PNG and as ICO.                                  *)
(*                                                                         *)
(* A canvas is the record [size, base, ops]: its side, the colour          *)
(* Image.new filled it with, and the ImageDraw calls made on it, in order. *)
(* Every coordinate is the integer the code computes.  s = size / 256 is   *)
(* an exact binary fraction, so int(x * s) is floor(x * size / 256); the   *)
(* radii 1.5 are kept doubled (int(1.5 * s) = floor(3 * size / 512)).      *)
(* The points of the two arrow arcs (math.cos / math.sin) are not          *)
(* computed: the arc's draw.line call is recorded with its width only.     *)
(***************************************************************************)
EXTENDS Integers, Sequences, FiniteSets

VARIABLES pc, idx, size, r, img, images, stdout, png, ico, exc

vars == <<pc, idx, size, r, img, images, stdout, png, ico, exc>>

\* Largest size create_icon is called with under SpecIcon.
MaxSize == 256

-----------------------------------------------------------------------------
(* main's and create_icon's literals *)

\* variant: the sizes listed smallest first
sizes_ascending == <<16, 32, 48, 64, 128, 256>>
sizes == <<256, 128, 64, 48, 32, 16>>

color_top == <<26, 31, 53>>
color_bottom == <<74, 100, 145>>

\* (x, y, 2 * r): the code's radii are 2, 1.5, 2, 1, 1.5
star_positions == << <<60, 50, 4>>, <<180, 40, 3>>, <<200, 70, 4>>, <<45, 80, 2>>, <<150, 55, 3>> >>

mountain1_points == << <<30, 180>>, <<90, 90>>, <<130, 140>>, <<170, 85>>, <<230, 180>> >>
snow1 == << <<90, 90>>, <<80, 110>>, <<100, 110>> >>
snow2 == << <<170, 85>>, <<158, 108>>, <<182, 108>> >>
mountain2_points == << <<10, 200>>, <<70, 120>>, <<110, 160>>, <<128, 130>>, <<150, 155>>, <<190, 115>>, <<250, 200>> >>
snow3 == << <<70, 120>>, <<58, 145>>, <<82, 145>> >>
snow4 == << <<128, 130>>, <<118, 150>>, <<138, 150>> >>
snow5 == << <<190, 115>>, <<178, 142>>, <<202, 142>> >>

db_color == <<0, 212, 170>>
db_highlight == <<0, 245, 196>>
db_shadow == <<0, 136, 102>>
\* variant: the cylinders stacked top to bottom
y_bases_reversed == <<170, 195, 220>>
y_bases == <<220, 195, 170>>

arrow_color == <<255, 255, 255, 230>>
arrow_head_r == << <<178, 140>>, <<185, 148>>, <<175, 150>> >>
arrow_head_l == << <<78, 205>>, <<71, 197>>, <<81, 195>> >>

bolt_color == <<255, 215, 0, 230>>
bolt_points == << <<128, 40>>, <<120, 70>>, <<132, 70>>, <<125, 95>>, <<145, 60>>, <<133, 60>>, <<140, 40>> >>

border_color == <<0, 212, 170>>

png_path == "backupforce-icon.png"
ico_path == "backupforce-icon.ico"

-----------------------------------------------------------------------------
(* create_icon's arithmetic *)

Max(a, b) == IF a >= b THEN a ELSE b

\* variant: rounding up instead of truncating
ScaleCeil(x, n) == (x * n + 255) \div 256
\* int(x * s) with s = size / 256, x a non-negative integer
Scale(x, n) == (x * n) \div 256

\* [(int(x*s), int(y*s)) for x, y in points]
ScalePoints(points, n) ==
    [k \in 1..Len(points) |-> <<Scale(points[k][1], n), Scale(points[k][2], n)>>]

center_of(n) == n \div 2

radius_of(n) == Scale(120, n)

\* color at iteration rr of the gradient loop: int(top + (bottom - top) * progress)
\* with progress = (radius - rr) / radius.  The float result equals the exact
\* floor for every size up to 599 (each channel, each rr).
\* variant: progress one step ahead, (radius - rr + 1) / radius
gradient_color_offbyone(radius, rr) ==
    [i \in 1..3 |-> color_top[i] + ((color_bottom[i] - color_top[i]) * (radius - rr + 1)) \div radius]
gradient_color(radius, rr) ==
    [i \in 1..3 |-> color_top[i] + ((color_bottom[i] - color_top[i]) * (radius - rr)) \div radius]

\* variant: int(r * s) without the max(1, .)
star_radius_unclamped(r2, n) == (r2 * n) \div 512
\* max(1, int(r * s)), r given doubled
star_radius(r2, n) == Max(1, (r2 * n) \div 512)

\* max(1, int(1.5 * s))
cyl_line_width(n) == Max(1, (3 * n) \div 512)
\* max(2, int(3 * s))
arrow_width(n) == Max(2, Scale(3, n))
\* max(2, int(4 * s))
border_width(n) == Max(2, Scale(4, n))

-----------------------------------------------------------------------------
(* ImageDraw calls *)

Op(layer, k, shape, pts, color, width) ==
    [layer |-> layer, k |-> k, shape |-> shape, pts |-> pts, color |-> color, width |-> width]

Paint(canvas, op) == [canvas EXCEPT !.ops = Append(@, op)]

RECURSIVE PaintAll(_, _)
PaintAll(canvas, seq) ==
    IF seq = <<>> THEN canvas ELSE PaintAll(Paint(canvas, Head(seq)), Tail(seq))

\* draw.ellipse([sx-sr, sy-sr, sx+sr, sy+sr], fill=(255, 255, 255, 200))
StarOp(k, n) ==
    LET sx == Scale(star_positions[k][1], n)
        sy == Scale(star_positions[k][2], n)
        sr == star_radius(star_positions[k][3], n)
    IN  Op("star", k, "ellipse", << <<sx - sr, sy - sr>>, <<sx + sr, sy + sr>> >>,
           <<255, 255, 255, 200>>, 0)

PolygonOp(layer, k, points, color, n) ==
    Op(layer, k, "polygon", ScalePoints(points, n), color, 0)

\* one iteration of the cylinder loop: shadow ellipse, body, highlight ellipse, line
CylinderOps(k, n) ==
    LET cx == Scale(128, n)
        rx == Scale(45, n)
        ry == Scale(12, n)
        cyl_height == Scale(25, n)
        y_base == y_bases[k]
        y == Scale(y_base, n)
        line_y == Scale(y_base - 12, n)
    IN  << Op("cyl_shadow", k, "ellipse", << <<cx - rx, y - ry>>, <<cx + rx, y + ry>> >>, db_shadow, 0),
           Op("cyl_body", k, "rectangle", << <<cx - rx, y - cyl_height>>, <<cx + rx, y>> >>, db_color, 0),
           Op("cyl_top", k, "ellipse",
              << <<cx - rx, y - cyl_height - ry>>, <<cx + rx, y - cyl_height + ry>> >>, db_highlight, 0),
           Op("cyl_line", k, "line",
              << <<cx - rx + Scale(5, n), line_y>>, <<cx + rx - Scale(5, n), line_y>> >>,
              db_shadow, cyl_line_width(n)) >>

-----------------------------------------------------------------------------
(* state *)

NoImage == [size |-> 0, base |-> <<0, 0, 0, 0>>, ops |-> <<>>]
NoFile == [written |-> FALSE, source |-> 0, entries |-> <<>>]

Init ==
    /\ pc = "for"
    /\ idx = 1
    /\ size = 0
    /\ r = 0
    /\ img = NoImage
    /\ images = <<>>
    /\ stdout = <<>>
    /\ png = NoFile
    /\ ico = NoFile
    /\ exc = "none"

\* create_icon entered directly with any size
InitIcon ==
    /\ pc = "new"
    /\ idx = 1
    /\ size \in 1..MaxSize
    /\ r = 0
    /\ img = NoImage
    /\ images = <<>>
    /\ stdout = <<>>
    /\ png = NoFile
    /\ ico = NoFile
    /\ exc = "none"

mainVars == <<idx, images, stdout, png, ico, exc>>

-----------------------------------------------------------------------------
(* main: the loop over sizes *)

ForSize ==
    /\ pc = "for"
    /\ idx <= Len(sizes)
    /\ stdout' = Append(stdout, <<"Creating", sizes[idx]>>)
    /\ size' = sizes[idx]
    /\ pc' = "new"
    /\ UNCHANGED <<idx, r, img, images, png, ico, exc>>

-----------------------------------------------------------------------------
(* create_icon *)

\* Image.new('RGBA', (size, size), (0, 0, 0, 0)); center, radius; loop entry
NewImage ==
    /\ pc = "new"
    /\ img' = [size |-> size, base |-> <<0, 0, 0, 0>>, ops |-> <<>>]
    /\ r' = radius_of(size)
    /\ pc' = IF radius_of(size) >= 1 THEN "gradient" ELSE "stars"
    /\ UNCHANGED <<size, mainVars>>

\* one iteration of for r in range(radius, 0, -1)
Gradient ==
    /\ pc = "gradient"
    /\ r >= 1
    /\ LET center == center_of(size)
           color == gradient_color(radius_of(size), r)
       IN  img' = Paint(img, Op("gradient", r, "ellipse",
                                << <<center - r, center - r>>, <<center + r, center + r>> >>,
                                color \o <<255>>, 0))
    /\ r' = r - 1
    /\ pc' = IF r - 1 >= 1 THEN "gradient" ELSE "stars"
    /\ UNCHANGED <<size, mainVars>>

Stars ==
    /\ pc = "stars"
    /\ img' = PaintAll(img, [k \in 1..Len(star_positions) |-> StarOp(k, size)])
    /\ pc' = "mountain1"
    /\ UNCHANGED <<size, r, mainVars>>

BackMountain ==
    /\ pc = "mountain1"
    /\ img' = Paint(img, PolygonOp("mountain1", 1, mountain1_points, <<61, 90, 128, 200>>, size))
    /\ pc' = "snow_back"
    /\ UNCHANGED <<size, r, mainVars>>

SnowBack ==
    /\ pc = "snow_back"
    /\ img' = PaintAll(img, << PolygonOp("snow", 1, snow1, <<224, 232, 240, 180>>, size),
                               PolygonOp("snow", 2, snow2, <<224, 232, 240, 180>>, size) >>)
    /\ pc' = "mountain2"
    /\ UNCHANGED <<size, r, mainVars>>

FrontMountain ==
    /\ pc = "mountain2"
    /\ img' = Paint(img, PolygonOp("mountain2", 1, mountain2_points, <<92, 122, 153, 255>>, size))
    /\ pc' = "snow_front"
    /\ UNCHANGED <<size, r, mainVars>>

SnowFront ==
    /\ pc = "snow_front"
    /\ img' = PaintAll(img, << PolygonOp("snow", 3, snow3, <<255, 255, 255, 230>>, size),
                               PolygonOp("snow", 4, snow4, <<255, 255, 255, 230>>, size),
                               PolygonOp("snow", 5, snow5, <<255, 255, 255, 230>>, size) >>)
    /\ pc' = "cylinders"
    /\ UNCHANGED <<size, r, mainVars>>

\* for i, y_base in enumerate([220, 195, 170])
Cylinders ==
    /\ pc = "cylinders"
    /\ img' = PaintAll(img, CylinderOps(1, size) \o CylinderOps(2, size) \o CylinderOps(3, size))
    /\ pc' = "arrow_right"
    /\ UNCHANGED <<size, r, mainVars>>

\* points_right always holds 10 points, so the line is always drawn
RightArrow ==
    /\ pc = "arrow_right"
    /\ img' = PaintAll(img, << Op("arrow_right_line", 1, "line", <<>>, arrow_color, arrow_width(size)),
                               PolygonOp("arrow_right_head", 1, arrow_head_r, arrow_color, size) >>)
    /\ pc' = "arrow_left"
    /\ UNCHANGED <<size, r, mainVars>>

LeftArrow ==
    /\ pc = "arrow_left"
    /\ img' = PaintAll(img, << Op("arrow_left_line", 1, "line", <<>>, arrow_color, arrow_width(size)),
                               PolygonOp("arrow_left_head", 1, arrow_head_l, arrow_color, size) >>)
    /\ pc' = "bolt"
    /\ UNCHANGED <<size, r, mainVars>>

Bolt ==
    /\ pc = "bolt"
    /\ img' = Paint(img, PolygonOp("bolt", 1, bolt_points, bolt_color, size))
    /\ pc' = "border"
    /\ UNCHANGED <<size, r, mainVars>>

Border ==
    /\ pc = "border"
    /\ LET center == center_of(size)
           radius == radius_of(size)
       IN  img' = Paint(img, Op("border", 1, "ellipse_outline",
                                << <<center - radius, center - radius>>,
                                   <<center + radius, center + radius>> >>,
                                border_color, border_width(size)))
    /\ pc' = "return"
    /\ UNCHANGED <<size, r, mainVars>>

CreateIcon ==
    \/ NewImage
    \/ Gradient
    \/ Stars
    \/ BackMountain
    \/ SnowBack
    \/ FrontMountain
    \/ SnowFront
    \/ Cylinders
    \/ RightArrow
    \/ LeftArrow
    \/ Bolt
    \/ Border

-----------------------------------------------------------------------------
(* main: after create_icon returns *)

\* img = create_icon(size); images.append(img); next iteration or leave the loop
AppendImage ==
    /\ pc = "return"
    /\ images' = Append(images, img)
    /\ idx' = idx + 1
    /\ pc' = IF idx + 1 <= Len(sizes) THEN "for" ELSE "save_png"
    /\ UNCHANGED <<size, r, img, stdout, png, ico, exc>>

\* variant: images[-1]
LastImage == Len(images)
\* images[0], as a 1-based index
PngSource == 1
IcoSource == 1

\* an except clause that swallows the error
SavePNGSwallow ==
    /\ pc = "save_png"
    /\ \/ /\ png' = [written |-> TRUE, source |-> PngSource, entries |-> <<>>]
          /\ stdout' = Append(stdout, <<"Saved PNG", png_path>>)
          /\ pc' = "save_ico"
          /\ UNCHANGED exc
       \/ /\ exc' = "png"
          /\ pc' = "save_ico"
          /\ UNCHANGED <<png, stdout>>
    /\ UNCHANGED <<idx, size, r, img, images, ico>>

\* images[0].save(png_path, "PNG"); print: the save returns or raises
SavePNG ==
    /\ pc = "save_png"
    /\ \/ /\ png' = [written |-> TRUE, source |-> PngSource, entries |-> <<>>]
          /\ stdout' = Append(stdout, <<"Saved PNG", png_path>>)
          /\ pc' = "save_ico"
          /\ UNCHANGED exc
       \/ /\ exc' = "png"
          /\ pc' = "raised"
          /\ UNCHANGED <<png, stdout>>
    /\ UNCHANGED <<idx, size, r, img, images, ico>>

\* The ICO encoder, given sizes and no append_images: every requested (s, s)
\* that fits the source image is a copy of the source image resampled to (s, s).
IcoEntries(src, requested) ==
    LET fits == {k \in 1..Len(requested) : requested[k] <= images[src].size /\ requested[k] <= 256}
    IN  [k \in 1..Len(requested) |->
            [dim |-> <<requested[k], requested[k]>>,
             source |-> src,
             kept |-> k \in fits,
             resampled |-> requested[k] # images[src].size]]

\* images[0].save(ico_path, format='ICO', sizes=[(s, s) for s in sizes]); print
SaveICO ==
    /\ pc = "save_ico"
    /\ \/ /\ ico' = [written |-> TRUE, source |-> IcoSource, entries |-> IcoEntries(IcoSource, sizes)]
          /\ stdout' = Append(stdout, <<"Saved ICO", ico_path>>)
          /\ pc' = "success"
          /\ UNCHANGED exc
       \/ /\ exc' = "ico"
          /\ pc' = "raised"
          /\ UNCHANGED <<ico, stdout>>
    /\ UNCHANGED <<idx, size, r, img, images, png>>

PrintSuccess ==
    /\ pc = "success"
    /\ stdout' = Append(stdout, <<"Icon files created successfully!", "">>)
    /\ pc' = "done"
    /\ UNCHANGED <<idx, size, r, img, images, png, ico, exc>>

Next ==
    \/ ForSize
    \/ CreateIcon
    \/ AppendImage
    \/ SavePNG
    \/ SaveICO
    \/ PrintSuccess

Spec == Init /\ [][Next]_vars

NextIcon == CreateIcon

SpecIcon == InitIcon /\ [][NextIcon]_vars

-----------------------------------------------------------------------------
(* reading a canvas *)

\* the canvas being painted and the canvases already appended to images
Canvases == {img} \cup {images[k] : k \in 1..Len(images)}

\* the canvases create_icon has returned or is about to return
Finished == {images[k] : k \in 1..Len(images)} \cup (IF pc = "return" THEN {img} ELSE {})

OpsOf(canvas, layer) == {j \in 1..Len(canvas.ops) : canvas.ops[j].layer = layer}

\* Pixel (center, y) of the canvas once only the gradient discs are on it: an
\* ellipse with bounding box [c-r, c-r, c+r, c+r] covers its own vertical axis
\* from c-r to c+r, and an opaque fill replaces what it covers.
GradientPixel(canvas, y) ==
    LET over == {j \in OpsOf(canvas, "gradient") :
                    canvas.ops[j].pts[1][2] <= y /\ y <= canvas.ops[j].pts[2][2]}
    IN  IF over = {} THEN canvas.base
        ELSE canvas.ops[CHOOSE j \in over : \A i \in over : i <= j].color

Brightness(c) == c[1] + c[2] + c[3]

\* the points a shape is built on: a polygon's vertices, a rectangle's four
\* corners, a star's centre
Vertices(op) ==
    IF op.shape = "polygon" THEN op.pts
    ELSE IF op.shape = "rectangle"
         THEN << op.pts[1], <<op.pts[2][1], op.pts[1][2]>>, <<op.pts[1][1], op.pts[2][2]>>, op.pts[2] >>
         ELSE << <<(op.pts[1][1] + op.pts[2][1]) \div 2, (op.pts[1][2] + op.pts[2][2]) \div 2>> >>

ShapeLayers == {"star", "mountain1", "snow", "mountain2", "cyl_body",
                "arrow_right_head", "arrow_left_head", "bolt"}

\* (x - center)^2 + (y - center)^2 <= radius^2, center = n // 2,
\* radius = floor(120 * n / 256)
InDisc(p, n) ==
    LET dx == p[1] - n \div 2
        dy == p[2] - n \div 2
        rad == (120 * n) \div 256
    IN  dx * dx + dy * dy <= rad * rad

LayerOf(op) == <<op.layer, op.k>>

\* the layers create_icon paints after the gradient discs, in order
LayerOrder ==
    << <<"star", 1>>, <<"star", 2>>, <<"star", 3>>, <<"star", 4>>, <<"star", 5>>,
       <<"mountain1", 1>>, <<"snow", 1>>, <<"snow", 2>>,
       <<"mountain2", 1>>, <<"snow", 3>>, <<"snow", 4>>, <<"snow", 5>>,
       <<"cyl_shadow", 1>>, <<"cyl_body", 1>>, <<"cyl_top", 1>>, <<"cyl_line", 1>>,
       <<"cyl_shadow", 2>>, <<"cyl_body", 2>>, <<"cyl_top", 2>>, <<"cyl_line", 2>>,
       <<"cyl_shadow", 3>>, <<"cyl_body", 3>>, <<"cyl_top", 3>>, <<"cyl_line", 3>>,
       <<"arrow_right_line", 1>>, <<"arrow_right_head", 1>>,
       <<"arrow_left_line", 1>>, <<"arrow_left_head", 1>>,
       <<"bolt", 1>>, <<"border", 1>> >>

Printed(line) == \E k \in 1..Len(stdout) : stdout[k][1] = line

-----------------------------------------------------------------------------
(* C1 *)

C2_EveryCanvasExported ==
    ico.written =>
        \A k \in 1..Len(images) :
            \E e \in 1..Len(ico.entries) :
                /\ ico.entries[e].dim = <<images[k].size, images[k].size>>
                /\ ico.entries[e].source = k
                /\ ~ico.entries[e].resampled

(* C3 *)

RenderOrder == <<256, 128, 64, 48, 32, 16>>

\* C3: stdout and the files show the order of events: the six create_icon
\* calls in the order 256, 128, 64, 48, 32, 16, then the PNG (only with all
\* six canvases in images), then the ICO, then the success message; the ICO
\* holds one (s, s) entry per rendered size, none larger than its source.
C3_EventOrder ==
    /\ Len(images) <= 6
    /\ \A k \in 1..Len(images) : images[k].size = RenderOrder[k]
    /\ Len(stdout) <= 9
    /\ \A k \in 1..Len(stdout) :
          stdout[k][1] = IF k <= 6 THEN "Creating"
                         ELSE IF k = 7 THEN "Saved PNG"
                         ELSE IF k = 8 THEN "Saved ICO"
                         ELSE "Icon files created successfully!"
    /\ \A k \in 1..Len(stdout) : k <= 6 => stdout[k] = <<"Creating", RenderOrder[k]>>
    /\ Len(images) \in {Len(stdout), Len(stdout) - 1} \/ Len(images) = 6
    /\ png.written => Len(images) = 6 /\ Len(stdout) >= 7
    /\ ico.written => png.written /\ Len(stdout) >= 8
    /\ Printed("Icon files created successfully!") => png.written /\ ico.written
    /\ ico.written =>
          /\ Len(ico.entries) = 6
          /\ \A k \in 1..6 :
                /\ ico.entries[k].dim = <<RenderOrder[k], RenderOrder[k]>>
                /\ ico.entries[k].kept
                /\ ico.entries[k].dim[1] <= images[ico.source].size

C3_Witness == pc = "done" /\ Len(stdout) = 9 /\ png.written /\ ico.written

(* C4 *)

\* C4: every canvas starts fully transparent with side size; what is painted
\* on it is always a prefix of: radius gradient discs (r = radius down to 1),
\* then the fixed layer order; a finished canvas holds all of it, the cylinder
\* bodies stand on y = 220, 195, 170 (scaled) in that order, and the border
\* ring is the last thing painted.
C4_FixedLayerSequence ==
    \A c \in Canvases :
        LET n == c.size
            g == radius_of(n)
        IN  /\ c.base = <<0, 0, 0, 0>>
            /\ Len(c.ops) <= g + Len(LayerOrder)
            /\ \A j \in 1..Len(c.ops) :
                  IF j <= g THEN LayerOf(c.ops[j]) = <<"gradient", g - j + 1>>
                  ELSE LayerOf(c.ops[j]) = LayerOrder[j - g]
            /\ c \in Finished =>
                  /\ Len(c.ops) = g + Len(LayerOrder)
                  /\ c.ops[Len(c.ops)].layer = "border"
                  /\ \A j \in OpsOf(c, "cyl_body") :
                        c.ops[j].pts[2][2] = Scale(<<220, 195, 170>>[c.ops[j].k], n)

C4_Witness == \E c \in Finished : c.size = 16 /\ c.ops[Len(c.ops)].layer = "border"

(* C5 *)

\* C5: a raise ends main where it happens: after the PNG save raised, the ICO
\* is not written and nothing more is printed; after the ICO save raised, the
\* success message is not printed and the PNG stays written; nothing runs
\* after a raise.
C5_NoErrorRecovery ==
    /\ exc = "png" =>
          /\ pc = "raised"
          /\ ~ico.written
          /\ ~Printed("Saved ICO")
          /\ ~Printed("Icon files created successfully!")
    /\ exc = "ico" =>
          /\ pc = "raised"
          /\ png.written
          /\ png.source = 1
          /\ ~ico.written
          /\ ~Printed("Icon files created successfully!")
    /\ pc = "raised" => exc # "none" /\ ~ENABLED Next
    /\ Printed("Icon files created successfully!") => exc = "none"

C5_Witness == exc = "ico" /\ png.written /\ pc = "raised"

(* C6 *)

\* C6: after the gradient loop, of two pixels of the disc's vertical axis the
\* upper one is never lighter than the lower one.
C6_DarkTopLightBottom ==
    pc = "stars" =>
        LET c == center_of(size)
            g == radius_of(size)
        IN  \A y1, y2 \in (c - g)..(c + g) :
                y1 < y2 => Brightness(GradientPixel(img, y1)) <= Brightness(GradientPixel(img, y2))

(* C7 *)

\* C7: every gradient disc's colour lies channel by channel between color_top
\* and color_bottom and strictly below color_bottom, has alpha 255, is
\* color_top for the first disc (r = radius), and no channel decreases from
\* one disc to the next.
C7_GradientColours ==
    \A c \in Canvases :
        \A j \in OpsOf(c, "gradient") :
            LET col == c.ops[j].color
            IN  /\ Len(col) = 4
                /\ col[4] = 255
                /\ \A i \in 1..3 : color_top[i] <= col[i] /\ col[i] < color_bottom[i]
                /\ c.ops[j].k = radius_of(c.size) => \A i \in 1..3 : col[i] = color_top[i]
                /\ (j + 1) \in OpsOf(c, "gradient") =>
                      /\ c.ops[j + 1].k = c.ops[j].k - 1
                      /\ \A i \in 1..3 : col[i] <= c.ops[j + 1].color[i]

C7_Witness ==
    \E c \in Finished : c.size = 256 /\ Cardinality(OpsOf(c, "gradient")) = 120

(* C8 *)

HalfWidth(op) == (op.pts[2][1] - op.pts[1][1]) \div 2

\* C8: on every canvas, of any size from 1 up, each star has radius >= 1, each
\* cylinder line width >= 1, each arrow line and the border ring width >= 2;
\* at size 256 the star radii are 2, 1, 2, 1, 1, the cylinder line width 1,
\* the arrow width 3 and the border width 4.
C8_NothingVanishes ==
    \A j \in 1..Len(img.ops) :
        LET op == img.ops[j]
        IN  /\ op.layer = "star" =>
                  /\ HalfWidth(op) >= 1
                  /\ op.pts[2][2] - op.pts[1][2] = op.pts[2][1] - op.pts[1][1]
                  /\ img.size = 256 => HalfWidth(op) = <<2, 1, 2, 1, 1>>[op.k]
            /\ op.layer = "cyl_line" =>
                  /\ op.width >= 1
                  /\ img.size = 256 => op.width = 1
            /\ op.layer \in {"arrow_right_line", "arrow_left_line"} =>
                  /\ op.width >= 2
                  /\ img.size = 256 => op.width = 3
            /\ op.layer = "border" =>
                  /\ op.width >= 2
                  /\ img.size = 256 => op.width = 4

C8_Witness == pc = "return" /\ img.size = 1 /\ Cardinality(OpsOf(img, "star")) = 5

(* C9 *)

\* C9 as claimed: on every canvas, every vertex of every shape painted after
\* the background disc lies inside the disc.
C9_ConfinedToDisc ==
    \A c \in Canvases :
        \A j \in 1..Len(c.ops) :
            c.ops[j].layer \in ShapeLayers =>
                \A v \in 1..Len(Vertices(c.ops[j])) : InDisc(Vertices(c.ops[j])[v], c.size)

\* the vertices that fall outside the disc
Outside(n, layer, k, v) ==
    \/ layer = "mountain2" /\ v \in {1, 7}
    \/ n = 16 /\ layer = "star" /\ k = 1
    \/ n = 16 /\ layer = "mountain1" /\ v = 1

\* C9 amended: on every canvas the vertices outside the disc are exactly the
\* front mountain's two base corners (10, 200) and (250, 200) and, at size 16,
\* the first star's centre and the back mountain's left base corner (30, 180).
C9_ConfinedButFor ==
    \A c \in Canvases :
        \A j \in 1..Len(c.ops) :
            c.ops[j].layer \in ShapeLayers =>
                \A v \in 1..Len(Vertices(c.ops[j])) :
                    InDisc(Vertices(c.ops[j])[v], c.size)
                        <=> ~Outside(c.size, c.ops[j].layer, c.ops[j].k, v)

C9_Witness ==
    /\ Len(images) = 6
    /\ \A k \in 1..6 : \A l \in ShapeLayers : OpsOf(images[k], l) # {}

====
